---------------------------- MODULE Spec2Model ----------------------------
(***************************************************************************)
(* Model of ejtraderIQ.IQOption: the order table, the balance and the      *)
(* retry wrapper _with_retry that guards every operation but balance().    *)
(*                                                                         *)
(* Money is counted in whole account units (the demo balance 1000.0 is     *)
(* 1000), the payout rate 0.80 is PayoutPct per cent, and the amounts      *)
(* offered to place_order are multiples of 5, so that amount * 0.80 is a   *)
(* whole number.  random.random() and fail_chance are counted in per cent  *)
(* (a draw r in [0,1) is 0..99, fail_chance in [0,1] is 0..100).           *)
(*                                                                         *)
(* One call is one pass idle -> with_retry -> ... -> done -> idle.  Every  *)
(* step between "idle" and "done" is forced: the only enabled actions are  *)
(* the next iteration of the retry loop that is executing.                 *)
(***************************************************************************)
EXTENDS Integers, Sequences, FiniteSets, TLC

VARIABLES
    balance,        \* self._balance
    orders,         \* self._orders: order id -> Order
    order_counter,  \* self._order_counter
    account_type,   \* self.account_type
    fail_chance,    \* self.fail_chance, per cent
    max_retries,    \* self.max_retries
    pc,             \* position of the caller: idle, with_retry, payout_retry, done
    op,             \* the operation being called
    args,           \* its arguments
    attempts,       \* local `attempts` of the operation's _with_retry
    inner_attempts, \* local `attempts` of the _with_retry of the nested get_payout_estimate
    outcome,        \* how the call ended: a returned value or a raised error
    pre,            \* history: balance, orders, order_counter when the call began
    draws,          \* history: failure-injection draws of the operation's _with_retry (TRUE = unavailable)
    bodyStarts,     \* history: how many times the operation's _impl was started in this call
    last_placed     \* history: <<id, balance before>> if the previous call was a place_order that returned, else <<>>

vars == <<balance, orders, order_counter, account_type, fail_chance, max_retries,
          pc, op, args, attempts, inner_attempts, outcome, pre, draws, bodyStarts,
          last_placed>>

account == <<balance, orders, order_counter>>
config == <<account_type, fail_chance, max_retries>>

-----------------------------------------------------------------------------
(* Bounds of the model *)

MaxOrders == 2
MaxRetries == 2

(* Program constants *)

DemoBalance == 1000
PayoutPct == 80
available_symbols == {"EURUSD", "USDJPY", "GBPUSD"}

(* Inputs offered to the operations *)

AccountTypes == {"DEMO", "REAL"}
FailChances == {0, 50, 100}
DrawValues == {0, 50, 99}
SymbolInputs == {"EURUSD", "USDJPY", "INVALID"}
PlaceOrderInputs ==
    {<<"EURUSD", "buy", 5>>, <<"USDJPY", "sell", 10>>,
     <<"INVALID", "buy", 5>>, <<"INVALID", "hold", 0>>,
     <<"EURUSD", "hold", 5>>, <<"EURUSD", "hold", 0>>,
     <<"EURUSD", "buy", 0>>, <<"USDJPY", "sell", -5>>}
OrderIdInputs == (1..MaxOrders) \cup {999}
DateInputs == {0, 1}
ResolutionChoices == {"win", "loss", "open"}

-----------------------------------------------------------------------------
(* Outcomes of a call or of a body *)

NoOutcome == [kind |-> "none"]
Return(v) == [kind |-> "return", val |-> v]
Raise(e) == [kind |-> "raise", error |-> e]

Returned == outcome.kind = "return"
Raised(e) == outcome.kind = "raise" /\ outcome.error = e

(* Order(id, symbol, direction, amount): status "open", result 0.0 *)
Order(id, symbol, direction, amount) ==
    [id |-> id, symbol |-> symbol, direction |-> direction, amount |-> amount,
     status |-> "open", result |-> 0]

(* A body's effect: its outcome, or the nested call it stops at, and the   *)
(* account as it leaves it.                                                 *)
Effect(out, b, o, c) == [out |-> out, balance |-> b, orders |-> o, order_counter |-> c]
NoEffect(out) == Effect(out, balance, orders, order_counter)

-----------------------------------------------------------------------------
(* _simulate_api_call with `<=` in place of `<` *)
simulate_api_call_raises_or_equal(r) == r <= fail_chance

(* _simulate_api_call: raises APIUnavailableError iff random.random() < fail_chance *)
simulate_api_call_raises(r) == r < fail_chance

(* _with_retry, the except clause: `if attempts >= self.max_retries: raise` *)
retries_exhausted(n) == n >= max_retries

(* get_real_time_quote._impl without the membership test of the symbol *)
get_real_time_quote_impl_no_symbol_check(symbol) ==
    NoEffect(Return(<<symbol, "price">>))

(* get_real_time_quote._impl; the price is random and stands as "price" *)
get_real_time_quote_impl(symbol) ==
    IF symbol \notin available_symbols
    THEN NoEffect(Raise("SymbolNotFoundError"))
    ELSE NoEffect(Return(<<symbol, "price">>))

(* get_history._impl; the candles are random, the value kept is their number: *)
(* one per minute from start_date to end_date inclusive                       *)
get_history_impl(symbol, start_date, end_date) ==
    IF symbol \notin available_symbols
    THEN NoEffect(Raise("SymbolNotFoundError"))
    ELSE IF start_date >= end_date
    THEN NoEffect(Raise("ValueError"))
    ELSE NoEffect(Return(<<end_date - start_date + 1>>))

(* get_payout_estimate._impl *)
get_payout_estimate_impl(symbol) ==
    IF symbol \notin available_symbols
    THEN NoEffect(Raise("SymbolNotFoundError"))
    ELSE NoEffect(Return(<<PayoutPct>>))

(* place_order._impl without `self._balance -= amount` *)
place_order_impl_no_debit(symbol, direction, amount) ==
    IF symbol \notin available_symbols
    THEN NoEffect(Raise("SymbolNotFoundError"))
    ELSE IF direction \notin {"buy", "sell"}
    THEN NoEffect(Raise("ValueError"))
    ELSE IF amount <= 0
    THEN NoEffect(Raise("ValueError"))
    ELSE LET order_id == order_counter + 1
             order == Order(order_id, symbol, direction, amount)
         IN  Effect(Return(<<order_id>>),
                    balance,
                    [k \in DOMAIN orders \cup {order_id} |->
                        IF k = order_id THEN order ELSE orders[k]],
                    order_id)

(* place_order._impl taking order_id before the counter is incremented *)
place_order_impl_id_before_increment(symbol, direction, amount) ==
    IF symbol \notin available_symbols
    THEN NoEffect(Raise("SymbolNotFoundError"))
    ELSE IF direction \notin {"buy", "sell"}
    THEN NoEffect(Raise("ValueError"))
    ELSE IF amount <= 0
    THEN NoEffect(Raise("ValueError"))
    ELSE LET order_id == order_counter
             order == Order(order_id, symbol, direction, amount)
         IN  Effect(Return(<<order_id>>),
                    balance - amount,
                    [k \in DOMAIN orders \cup {order_id} |->
                        IF k = order_id THEN order ELSE orders[k]],
                    order_counter + 1)

(* place_order._impl testing the direction before the symbol *)
place_order_impl_direction_first(symbol, direction, amount) ==
    IF direction \notin {"buy", "sell"}
    THEN NoEffect(Raise("ValueError"))
    ELSE IF symbol \notin available_symbols
    THEN NoEffect(Raise("SymbolNotFoundError"))
    ELSE IF amount <= 0
    THEN NoEffect(Raise("ValueError"))
    ELSE LET order_id == order_counter + 1
             order == Order(order_id, symbol, direction, amount)
         IN  Effect(Return(<<order_id>>),
                    balance - amount,
                    [k \in DOMAIN orders \cup {order_id} |->
                        IF k = order_id THEN order ELSE orders[k]],
                    order_id)

(* place_order._impl refusing an amount above the balance *)
place_order_impl_funds_check(symbol, direction, amount) ==
    IF symbol \notin available_symbols
    THEN NoEffect(Raise("SymbolNotFoundError"))
    ELSE IF direction \notin {"buy", "sell"}
    THEN NoEffect(Raise("ValueError"))
    ELSE IF amount <= 0
    THEN NoEffect(Raise("ValueError"))
    ELSE IF amount > balance
    THEN NoEffect(Raise("ValueError"))
    ELSE LET order_id == order_counter + 1
             order == Order(order_id, symbol, direction, amount)
         IN  Effect(Return(<<order_id>>),
                    balance - amount,
                    [k \in DOMAIN orders \cup {order_id} |->
                        IF k = order_id THEN order ELSE orders[k]],
                    order_id)

(* place_order._impl *)
place_order_impl(symbol, direction, amount) ==
    IF symbol \notin available_symbols
    THEN NoEffect(Raise("SymbolNotFoundError"))
    ELSE IF direction \notin {"buy", "sell"}
    THEN NoEffect(Raise("ValueError"))
    ELSE IF amount <= 0
    THEN NoEffect(Raise("ValueError"))
    ELSE LET order_id == order_counter + 1
             order == Order(order_id, symbol, direction, amount)
         IN  Effect(Return(<<order_id>>),
                    balance - amount,
                    [k \in DOMAIN orders \cup {order_id} |->
                        IF k = order_id THEN order ELSE orders[k]],
                    order_id)

(* check_order_status._impl without `if order.status == "open"`: every call draws *)
check_order_status_impl_always_draws(order_id, choice) ==
    IF order_id \notin DOMAIN orders
    THEN NoEffect(Raise("OrderConflictError"))
    ELSE LET order == orders[order_id] IN
         IF choice = "win"
         THEN Effect([kind |-> "call"], balance,
                     [orders EXCEPT ![order_id].status = "win"], order_counter)
         ELSE IF choice = "loss"
         THEN Effect(Return(<<"loss", -order.amount>>), balance,
                     [orders EXCEPT ![order_id].status = "loss",
                                    ![order_id].result = -order.amount],
                     order_counter)
         ELSE Effect(Return(<<"open", 0>>), balance,
                     [orders EXCEPT ![order_id].status = "open",
                                    ![order_id].result = 0],
                     order_counter)

(* check_order_status._impl raising an error kind of its own for an unknown id *)
check_order_status_impl_order_not_found(order_id, choice) ==
    IF order_id \notin DOMAIN orders
    THEN NoEffect(Raise("OrderNotFoundError"))
    ELSE LET order == orders[order_id] IN
         IF order.status = "open"
         THEN IF choice = "win"
              THEN Effect([kind |-> "call"], balance,
                          [orders EXCEPT ![order_id].status = "win"], order_counter)
              ELSE IF choice = "loss"
              THEN Effect(Return(<<"loss", -order.amount>>), balance,
                          [orders EXCEPT ![order_id].status = "loss",
                                         ![order_id].result = -order.amount],
                          order_counter)
              ELSE Effect(Return(<<"open", 0>>), balance,
                          [orders EXCEPT ![order_id].status = "open",
                                         ![order_id].result = 0],
                          order_counter)
         ELSE NoEffect(Return(<<order.status, order.result>>))

(* check_order_status._impl with the test inverted to `if order.status !=   *)
(* "open"`: an open order is returned as it is and never drawn              *)
check_order_status_impl_never_draws_open(order_id, choice) ==
    IF order_id \notin DOMAIN orders
    THEN NoEffect(Raise("OrderConflictError"))
    ELSE LET order == orders[order_id] IN
         IF order.status # "open"
         THEN IF choice = "win"
              THEN Effect([kind |-> "call"], balance,
                          [orders EXCEPT ![order_id].status = "win"], order_counter)
              ELSE IF choice = "loss"
              THEN Effect(Return(<<"loss", -order.amount>>), balance,
                          [orders EXCEPT ![order_id].status = "loss",
                                         ![order_id].result = -order.amount],
                          order_counter)
              ELSE Effect(Return(<<"open", 0>>), balance,
                          [orders EXCEPT ![order_id].status = "open",
                                         ![order_id].result = 0],
                          order_counter)
         ELSE NoEffect(Return(<<order.status, order.result>>))

(* check_order_status._impl up to its return, its raise, or its call of    *)
(* get_payout_estimate; `choice` is the value of random.choice.  On "win"  *)
(* the status is already stored when get_payout_estimate is called.        *)
check_order_status_impl(order_id, choice) ==
    IF order_id \notin DOMAIN orders
    THEN NoEffect(Raise("OrderConflictError"))
    ELSE LET order == orders[order_id] IN
         IF order.status = "open"
         THEN IF choice = "win"
              THEN Effect([kind |-> "call"], balance,
                          [orders EXCEPT ![order_id].status = "win"], order_counter)
              ELSE IF choice = "loss"
              THEN Effect(Return(<<"loss", -order.amount>>), balance,
                          [orders EXCEPT ![order_id].status = "loss",
                                         ![order_id].result = -order.amount],
                          order_counter)
              ELSE Effect(Return(<<"open", 0>>), balance,
                          [orders EXCEPT ![order_id].status = "open",
                                         ![order_id].result = 0],
                          order_counter)
         ELSE NoEffect(Return(<<order.status, order.result>>))

(* check_order_status._impl after get_payout_estimate returned `payout`    *)
check_order_status_win(order_id, payout) ==
    LET order == orders[order_id]
        result == (order.amount * payout) \div 100
    IN  Effect(Return(<<order.status, result>>),
               balance + order.amount + result,
               [orders EXCEPT ![order_id].result = result],
               order_counter)

(* cancel_order._impl without `self._balance += order.amount` *)
cancel_order_impl_no_credit(order_id) ==
    IF order_id \notin DOMAIN orders
    THEN NoEffect(Raise("OrderConflictError"))
    ELSE LET order == orders[order_id] IN
         IF order.status # "open"
         THEN NoEffect(Raise("OrderConflictError"))
         ELSE Effect(Return(<<TRUE>>),
                     balance,
                     [orders EXCEPT ![order_id].status = "cancelled",
                                    ![order_id].result = 0],
                     order_counter)

(* cancel_order._impl without `if order.status != "open": raise` *)
cancel_order_impl_no_status_check(order_id) ==
    IF order_id \notin DOMAIN orders
    THEN NoEffect(Raise("OrderConflictError"))
    ELSE LET order == orders[order_id] IN
         Effect(Return(<<TRUE>>),
                balance + order.amount,
                [orders EXCEPT ![order_id].status = "cancelled",
                               ![order_id].result = 0],
                order_counter)

(* cancel_order._impl with `self._orders[order_id]` in place of `.get`: an  *)
(* unknown id raises KeyError                                               *)
cancel_order_impl_key_error(order_id) ==
    IF order_id \notin DOMAIN orders
    THEN NoEffect(Raise("KeyError"))
    ELSE LET order == orders[order_id] IN
         IF order.status # "open"
         THEN NoEffect(Raise("OrderConflictError"))
         ELSE Effect(Return(<<TRUE>>),
                     balance + order.amount,
                     [orders EXCEPT ![order_id].status = "cancelled",
                                    ![order_id].result = 0],
                     order_counter)

(* cancel_order._impl with `order.amount = 0.0` in place of `order.result = 0.0` *)
cancel_order_impl_zeroes_amount(order_id) ==
    IF order_id \notin DOMAIN orders
    THEN NoEffect(Raise("OrderConflictError"))
    ELSE LET order == orders[order_id] IN
         IF order.status # "open"
         THEN NoEffect(Raise("OrderConflictError"))
         ELSE Effect(Return(<<TRUE>>),
                     balance + order.amount,
                     [orders EXCEPT ![order_id].status = "cancelled",
                                    ![order_id].amount = 0],
                     order_counter)

(* cancel_order._impl *)
cancel_order_impl(order_id) ==
    IF order_id \notin DOMAIN orders
    THEN NoEffect(Raise("OrderConflictError"))
    ELSE LET order == orders[order_id] IN
         IF order.status # "open"
         THEN NoEffect(Raise("OrderConflictError"))
         ELSE Effect(Return(<<TRUE>>),
                     balance + order.amount,
                     [orders EXCEPT ![order_id].status = "cancelled",
                                    ![order_id].result = 0],
                     order_counter)

(* The _impl that _with_retry was handed, by operation *)
Impl(choice) ==
    CASE op = "get_real_time_quote" -> get_real_time_quote_impl(args[1])
      [] op = "get_history"         -> get_history_impl(args[1], args[2], args[3])
      [] op = "get_payout_estimate" -> get_payout_estimate_impl(args[1])
      [] op = "place_order"         -> place_order_impl(args[1], args[2], args[3])
      [] op = "check_order_status"  -> check_order_status_impl(args[1], choice)
      [] op = "cancel_order"        -> cancel_order_impl(args[1])

-----------------------------------------------------------------------------
(* __init__ *)
Init ==
    /\ account_type \in AccountTypes
    /\ balance = IF account_type = "DEMO" THEN DemoBalance ELSE 0
    /\ orders = <<>>
    /\ order_counter = 0
    /\ fail_chance \in FailChances
    /\ max_retries \in 1..MaxRetries
    /\ pc = "idle"
    /\ op = "none"
    /\ args = <<>>
    /\ attempts = 0
    /\ inner_attempts = 0
    /\ outcome = NoOutcome
    /\ pre = [balance |-> balance, orders |-> orders, order_counter |-> order_counter]
    /\ draws = <<>>
    /\ bodyStarts = 0
    /\ last_placed = <<>>

(* Entry into _with_retry(func): attempts = 0 *)
Enter(o, a) ==
    /\ pc = "idle"
    /\ pc' = "with_retry"
    /\ op' = o
    /\ args' = a
    /\ attempts' = 0
    /\ inner_attempts' = 0
    /\ outcome' = NoOutcome
    /\ pre' = [balance |-> balance, orders |-> orders, order_counter |-> order_counter]
    /\ draws' = <<>>
    /\ bodyStarts' = 0
    /\ last_placed' = IF op = "place_order" /\ outcome.kind = "return"
                      THEN <<outcome.val[1], pre.balance>> ELSE <<>>
    /\ UNCHANGED <<account, config>>

get_real_time_quote(symbol) == Enter("get_real_time_quote", <<symbol>>)

get_history(symbol, start_date, end_date) ==
    Enter("get_history", <<symbol, start_date, end_date>>)

get_payout_estimate(symbol) == Enter("get_payout_estimate", <<symbol>>)

place_order(symbol, direction, amount) ==
    /\ order_counter < MaxOrders
    /\ Enter("place_order", <<symbol, direction, amount>>)

check_order_status(order_id) == Enter("check_order_status", <<order_id>>)

cancel_order(order_id) == Enter("cancel_order", <<order_id>>)

(* balance(): returns self._balance, not routed through _with_retry.  The   *)
(* value is kept with its name, so that consecutive outcomes never hold a   *)
(* number where the other holds cancel_order's True                         *)
Balance ==
    /\ pc = "idle"
    /\ pc' = "done"
    /\ op' = "balance"
    /\ args' = <<>>
    /\ attempts' = 0
    /\ inner_attempts' = 0
    /\ outcome' = Return(<<"balance", balance>>)
    /\ pre' = [balance |-> balance, orders |-> orders, order_counter |-> order_counter]
    /\ draws' = <<>>
    /\ bodyStarts' = 0
    /\ last_placed' = IF op = "place_order" /\ outcome.kind = "return"
                      THEN <<outcome.val[1], pre.balance>> ELSE <<>>
    /\ UNCHANGED <<account, config>>

(* _with_retry: `except APIUnavailableError: attempts += 1; if attempts >=  *)
(* self.max_retries: raise`, else the loop goes round                       *)
ExceptAPIUnavailable ==
    /\ attempts' = attempts + 1
    /\ IF retries_exhausted(attempts + 1)
       THEN pc' = "done" /\ outcome' = Raise("APIUnavailableError")
       ELSE pc' = "with_retry" /\ outcome' = outcome

(* _with_retry with `except Exception` in place of `except                  *)
(* APIUnavailableError`: an error of the body is counted and retried too    *)
WithRetry_catches_all(r, choice) ==
    /\ pc = "with_retry"
    /\ draws' = Append(draws, simulate_api_call_raises(r))
    /\ IF simulate_api_call_raises(r)
       THEN /\ ExceptAPIUnavailable
            /\ UNCHANGED <<account, inner_attempts, bodyStarts>>
       ELSE LET e == Impl(choice) IN
            /\ bodyStarts' = bodyStarts + 1
            /\ balance' = e.balance
            /\ orders' = e.orders
            /\ order_counter' = e.order_counter
            /\ inner_attempts' = 0
            /\ IF e.out.kind = "call"
               THEN pc' = "payout_retry" /\ outcome' = outcome /\ attempts' = attempts
               ELSE IF e.out.kind = "raise"
               THEN /\ attempts' = attempts + 1
                    /\ IF retries_exhausted(attempts + 1)
                       THEN pc' = "done" /\ outcome' = e.out
                       ELSE pc' = "with_retry" /\ outcome' = outcome
               ELSE pc' = "done" /\ outcome' = e.out /\ attempts' = attempts
    /\ UNCHANGED <<config, op, args, pre, last_placed>>

(* One iteration of the operation's _with_retry loop: the draw of           *)
(* _simulate_api_call, then func() up to its end or its nested call         *)
WithRetry(r, choice) ==
    /\ pc = "with_retry"
    /\ draws' = Append(draws, simulate_api_call_raises(r))
    /\ IF simulate_api_call_raises(r)
       THEN /\ ExceptAPIUnavailable
            /\ UNCHANGED <<account, inner_attempts, bodyStarts>>
       ELSE LET e == Impl(choice) IN
            /\ bodyStarts' = bodyStarts + 1
            /\ balance' = e.balance
            /\ orders' = e.orders
            /\ order_counter' = e.order_counter
            /\ attempts' = attempts
            /\ inner_attempts' = 0
            /\ IF e.out.kind = "call"
               THEN pc' = "payout_retry" /\ outcome' = outcome
               ELSE pc' = "done" /\ outcome' = e.out
    /\ UNCHANGED <<config, op, args, pre, last_placed>>

(* One iteration of the _with_retry loop of the get_payout_estimate that    *)
(* check_order_status._impl called.  Its APIUnavailableError leaves _impl   *)
(* and is caught by the except clause of the operation's _with_retry; any   *)
(* other error leaves both.                                                 *)
PayoutRetry(r) ==
    /\ pc = "payout_retry"
    /\ IF simulate_api_call_raises(r)
       THEN /\ inner_attempts' = inner_attempts + 1
            /\ IF retries_exhausted(inner_attempts + 1)
               THEN ExceptAPIUnavailable
               ELSE pc' = "payout_retry" /\ attempts' = attempts /\ outcome' = outcome
            /\ UNCHANGED account
       ELSE LET p == get_payout_estimate_impl(orders[args[1]].symbol) IN
            /\ UNCHANGED <<attempts, inner_attempts>>
            /\ pc' = "done"
            /\ IF p.out.kind = "raise"
               THEN outcome' = p.out /\ UNCHANGED account
               ELSE LET e == check_order_status_win(args[1], p.out.val[1]) IN
                    /\ outcome' = e.out
                    /\ balance' = e.balance
                    /\ orders' = e.orders
                    /\ order_counter' = e.order_counter
    /\ UNCHANGED <<config, op, args, pre, draws, bodyStarts, last_placed>>

(* The caller has the outcome and is free to call again *)
Done ==
    /\ pc = "done"
    /\ pc' = "idle"
    /\ UNCHANGED <<account, config, op, args, attempts, inner_attempts,
                   outcome, pre, draws, bodyStarts, last_placed>>

Next ==
    \/ Balance
    \/ \E symbol \in SymbolInputs : get_real_time_quote(symbol)
    \/ \E symbol \in SymbolInputs, s, e \in DateInputs : get_history(symbol, s, e)
    \/ \E symbol \in SymbolInputs : get_payout_estimate(symbol)
    \/ \E a \in PlaceOrderInputs : place_order(a[1], a[2], a[3])
    \/ \E order_id \in OrderIdInputs : check_order_status(order_id)
    \/ \E order_id \in OrderIdInputs : cancel_order(order_id)
    \/ \E r \in DrawValues, choice \in ResolutionChoices : WithRetry(r, choice)
    \/ \E r \in DrawValues : PayoutRetry(r)
    \/ Done

Spec == Init /\ [][Next]_vars

(* An iteration of the retry loop of a check_order_status(order_id) in      *)
(* which random.choice does not draw "open"                                 *)
DrawsResolution(order_id) ==
    /\ op = "check_order_status"
    /\ args[1] = order_id
    /\ \E r \in DrawValues, choice \in {"win", "loss"} : WithRetry(r, choice)

(* Every step changes the caller's position, appends a draw or counts a    *)
(* nested attempt                                                           *)
progress == <<pc, draws, inner_attempts>>

(* A session constructed as IQOption(email, password): the default DEMO     *)
(* account and fail_chance = 0.0.  No draw is unavailable then, so          *)
(* max_retries is never read against a positive count; it is the largest    *)
(* of the model.                                                            *)
InitNoFailure ==
    /\ Init
    /\ account_type = "DEMO"
    /\ fail_chance = 0
    /\ max_retries = MaxRetries

(* Such a session under a caller that keeps calling check_order_status on   *)
(* every order id, with calls that run to their end (the retry loops are    *)
(* synchronous and bounded) and a random.choice that does not avoid "win"   *)
(* and "loss" for ever                                                      *)
FairSpec ==
    /\ InitNoFailure
    /\ [][Next]_vars
    /\ WF_progress(Next)
    /\ \A order_id \in 1..MaxOrders :
           /\ SF_progress(check_order_status(order_id))
           /\ SF_progress(DrawsResolution(order_id))

-----------------------------------------------------------------------------
(* Vocabulary of the properties *)

Terminal == {"win", "loss", "cancelled"}
BetweenCalls == pc \in {"idle", "done"}
InitialBalance == IF account_type = "DEMO" THEN DemoBalance ELSE 0
Unavailable == Raised("APIUnavailableError")
AccountUnchanged ==
    /\ balance = pre.balance
    /\ orders = pre.orders
    /\ order_counter = pre.order_counter

(* What an order in status st contributes to the balance *)
Contribution(order) ==
    CASE order.status \in {"open", "loss"} -> -order.amount
      [] order.status = "win"              -> (order.amount * PayoutPct) \div 100
      [] order.status = "cancelled"        -> 0

RECURSIVE SumContributions(_)
SumContributions(n) ==
    IF n = 0 THEN 0 ELSE Contribution(orders[n]) + SumContributions(n - 1)

-----------------------------------------------------------------------------
(* C1: between calls, the balance is the initial balance minus the amounts *)
(* of the open and lost orders plus amount * payout rate of the won        *)
(* orders; cancelled orders contribute nothing.                            *)
C1_BalanceConservation ==
    BetweenCalls => balance = InitialBalance + SumContributions(order_counter)

(* C2: a call that ends with APIUnavailableError leaves the balance, the   *)
(* order counter and the order table as they were when it began.           *)
C2_UnavailableLeavesAccount ==
    (pc = "done" /\ Unavailable) => AccountUnchanged

(* C3: between calls, an open or cancelled order has result 0, a lost one  *)
(* -amount, a won one amount * payout rate.                                *)
C3_StatusResultConsistent ==
    BetweenCalls =>
        \A k \in DOMAIN orders :
            /\ orders[k].status \in {"open", "cancelled"} => orders[k].result = 0
            /\ orders[k].status = "loss" => orders[k].result = -orders[k].amount
            /\ orders[k].status = "win" =>
                   /\ orders[k].result = (orders[k].amount * PayoutPct) \div 100
                   /\ orders[k].result > 0

(* C4: within one call through _with_retry the wrapped _impl is started at *)
(* most once.                                                              *)
C4_BodyStartedAtMostOnce == bodyStarts <= 1

(* C5: an order that was win, loss or cancelled when a call began keeps    *)
(* its status and result throughout that call, whatever the operation and  *)
(* its order id; a check_order_status on it that returns, returns the      *)
(* stored (status, result) and leaves the balance as it was.               *)
C5_TerminalAbsorbing ==
    \A k \in DOMAIN pre.orders :
        pre.orders[k].status \in Terminal =>
            /\ k \in DOMAIN orders
            /\ orders[k].status = pre.orders[k].status
            /\ orders[k].result = pre.orders[k].result
            /\ (pc = "done" /\ op = "check_order_status" /\ args[1] = k /\ Returned) =>
                   /\ outcome.val = <<pre.orders[k].status, pre.orders[k].result>>
                   /\ balance = pre.balance

(* A check_order_status has returned on an order that was already resolved *)
C5_Witness ==
    /\ pc = "done" /\ op = "check_order_status" /\ Returned
    /\ args[1] \in DOMAIN pre.orders
    /\ pre.orders[args[1]].status \in {"win", "loss"}

(* C6: a place_order with a valid symbol, a direction in {buy, sell} and   *)
(* an amount > 0 that returns an id has debited the balance by the amount  *)
(* once, however many draws were unavailable before, has added one order   *)
(* under that id, open with result 0 and the given fields, and has left    *)
(* every earlier order as it was.                                          *)
C6_PlaceOrderEffect ==
    (/\ pc = "done" /\ op = "place_order" /\ Returned
     /\ args[1] \in available_symbols /\ args[2] \in {"buy", "sell"} /\ args[3] > 0) =>
        LET id == outcome.val[1] IN
        /\ balance = pre.balance - args[3]
        /\ id \notin DOMAIN pre.orders
        /\ DOMAIN orders = DOMAIN pre.orders \cup {id}
        /\ orders[id] = [id |-> id, symbol |-> args[1], direction |-> args[2],
                         amount |-> args[3], status |-> "open", result |-> 0]
        /\ \A k \in DOMAIN pre.orders : orders[k] = pre.orders[k]

(* A place_order has returned after an unavailable draw, with an earlier   *)
(* order in the table                                                      *)
C6_Witness ==
    /\ pc = "done" /\ op = "place_order" /\ Returned
    /\ Len(draws) >= 2
    /\ pre.order_counter >= 1

(* C7: a cancel_order on an order that is open, whose call is not ended by *)
(* failure injection (APIUnavailableError), returns True, leaves the order *)
(* cancelled with result 0 and credits its amount; right after the         *)
(* place_order that created the order, the balance is back at its value    *)
(* before that place_order; a later check_order_status that returns        *)
(* reports cancelled.                                                      *)
C7_CancelOpenOrder ==
    /\ (/\ pc = "done" /\ op = "cancel_order" /\ ~Unavailable
        /\ args[1] \in DOMAIN pre.orders
        /\ pre.orders[args[1]].status = "open") =>
           LET k == args[1] IN
           /\ Returned
           /\ outcome.val = <<TRUE>>
           /\ orders[k].status = "cancelled"
           /\ orders[k].result = 0
           /\ balance = pre.balance + pre.orders[k].amount
           /\ (Len(last_placed) = 2 /\ last_placed[1] = k) => balance = last_placed[2]
    /\ (/\ pc = "done" /\ op = "check_order_status" /\ Returned
        /\ args[1] \in DOMAIN pre.orders
        /\ pre.orders[args[1]].status = "cancelled") =>
           outcome.val[1] = "cancelled"

(* An order has been cancelled right after it was placed *)
C7_Witness ==
    /\ pc = "done" /\ op = "cancel_order" /\ Returned
    /\ Len(last_placed) = 2 /\ last_placed[1] = args[1]
    /\ orders[args[1]].status = "cancelled"

(* C8: a cancel_order on an order that is win, loss or cancelled never     *)
(* changes the balance, the counter or any order, and it ends with an      *)
(* error, which is OrderConflictError unless failure injection ended the   *)
(* call with APIUnavailableError before the body ran.                      *)
C8_CancelResolvedOrder ==
    (/\ op = "cancel_order"
     /\ args[1] \in DOMAIN pre.orders
     /\ pre.orders[args[1]].status \in Terminal) =>
        /\ AccountUnchanged
        /\ pc \in {"done", "idle"} =>
               /\ outcome.kind = "raise"
               /\ outcome.error \in {"OrderConflictError", "APIUnavailableError"}
               /\ bodyStarts >= 1 => outcome.error = "OrderConflictError"

(* A cancel_order of an already cancelled order has been refused *)
C8_Witness ==
    /\ pc = "done" /\ op = "cancel_order" /\ Raised("OrderConflictError")
    /\ args[1] \in DOMAIN pre.orders
    /\ pre.orders[args[1]].status = "cancelled"

(* C9: the keys of the order table are exactly 1..order_counter, each      *)
(* order's id is its key, no call removes an order or lowers the counter,  *)
(* a place_order that returns, returns the counter at entry plus one, and  *)
(* a place_order that fails, like every other operation, leaves the        *)
(* counter and the keys as they were.                                      *)
C9_OrderIds ==
    /\ DOMAIN orders = 1..order_counter
    /\ \A k \in DOMAIN orders : orders[k].id = k
    /\ DOMAIN pre.orders \subseteq DOMAIN orders
    /\ pre.order_counter <= order_counter
    /\ (pc = "done" /\ op = "place_order" /\ Returned) =>
           /\ outcome.val[1] = pre.order_counter + 1
           /\ order_counter = pre.order_counter + 1
    /\ (pc = "done" /\ ~(op = "place_order" /\ Returned)) =>
           /\ order_counter = pre.order_counter
           /\ DOMAIN orders = DOMAIN pre.orders

(* A place_order has failed after an order was placed *)
C9_Witness ==
    /\ pc = "done" /\ op = "place_order" /\ outcome.kind = "raise"
    /\ order_counter >= 1

(* C10: a call through _with_retry makes at most max_retries draws; it     *)
(* ends with APIUnavailableError exactly when max_retries draws in a row   *)
(* were unavailable, and otherwise ends at its first available draw.       *)
C10_BoundedRetry ==
    (pc = "done" /\ op # "balance") =>
        /\ Len(draws) \in 1..max_retries
        /\ Unavailable <=>
               (Len(draws) = max_retries /\ \A i \in 1..Len(draws) : draws[i])
        /\ ~Unavailable =>
               (\A i \in 1..Len(draws) : draws[i] <=> i < Len(draws))

(* The errors a body raises itself *)
DomainErrors == {"SymbolNotFoundError", "ValueError", "OrderConflictError"}

(* C11: a call that ends with an error raised by the body ends at the first *)
(* start of the body, on the first available draw: no draw follows, the     *)
(* counted attempts are only the unavailable draws before it, and balance,  *)
(* counter and order table are as they were when the call began.            *)
C11_DomainErrorsBypassRetry ==
    (pc = "done" /\ outcome.kind = "raise" /\ outcome.error \in DomainErrors) =>
        /\ bodyStarts = 1
        /\ Len(draws) \in 1..max_retries
        /\ \A i \in 1..Len(draws) : draws[i] <=> i < Len(draws)
        /\ attempts = Len(draws) - 1
        /\ attempts < max_retries
        /\ AccountUnchanged

(* A body has raised on the first attempt with a retry still in hand *)
C11_Witness ==
    /\ pc = "done" /\ Raised("ValueError")
    /\ max_retries = 2 /\ draws = <<FALSE>> /\ attempts = 0

(* C12, as claimed: a get_real_time_quote for a symbol outside              *)
(* available_symbols always ends with SymbolNotFoundError, whatever         *)
(* fail_chance and max_retries are.                                         *)
C12_InvalidSymbolAlwaysNotFound ==
    (pc = "done" /\ op = "get_real_time_quote" /\ args[1] \notin available_symbols) =>
        Raised("SymbolNotFoundError")

(* C12, amended: such a call never returns a value and changes nothing; it  *)
(* ends with SymbolNotFoundError as soon as a draw is available, which is   *)
(* always so with fail_chance = 0, and with APIUnavailableError exactly     *)
(* when max_retries draws in a row were unavailable.                        *)
C12_InvalidSymbolNotFoundOrUnavailable ==
    (pc = "done" /\ op = "get_real_time_quote" /\ args[1] \notin available_symbols) =>
        /\ outcome.kind = "raise"
        /\ outcome.error \in {"SymbolNotFoundError", "APIUnavailableError"}
        /\ Unavailable <=>
               (Len(draws) = max_retries /\ \A i \in 1..Len(draws) : draws[i])
        /\ fail_chance = 0 => Raised("SymbolNotFoundError")
        /\ AccountUnchanged

(* The unknown symbol has been reported after an unavailable draw *)
C12_Witness ==
    /\ pc = "done" /\ op = "get_real_time_quote" /\ args[1] = "INVALID"
    /\ Raised("SymbolNotFoundError")
    /\ draws = <<TRUE, FALSE>>

(* C13: with fail_chance = 1 and max_retries = 1 every call of an operation *)
(* of the session, balance() included, ends with APIUnavailableError and    *)
(* leaves balance, counter and order table as they were.                    *)
C13_AlwaysUnavailable ==
    (pc = "done" /\ fail_chance = 100 /\ max_retries = 1) =>
        /\ Unavailable
        /\ AccountUnchanged

(* C14: with fail_chance = 0 no draw is unavailable and no call ends with   *)
(* APIUnavailableError, whatever max_retries, the operation and the calls   *)
(* before it.                                                               *)
C14_NeverUnavailable ==
    fail_chance = 0 =>
        /\ ~Unavailable
        /\ \A i \in 1..Len(draws) : ~draws[i]
        /\ attempts = 0 /\ inner_attempts = 0

(* With fail_chance = 0 a check_order_status has resolved an order to win,  *)
(* through the nested get_payout_estimate                                   *)
C14_Witness ==
    /\ fail_chance = 0 /\ pc = "done" /\ op = "check_order_status"
    /\ Returned /\ outcome.val[1] = "win"
    /\ pre.orders[args[1]].status = "open"

(* A check_order_status or cancel_order whose body ran on an id that was    *)
(* not in the order table when the call began                               *)
UnknownIdCall ==
    /\ pc = "done" /\ op \in {"check_order_status", "cancel_order"}
    /\ args[1] \notin DOMAIN pre.orders
    /\ bodyStarts >= 1

(* C15, as claimed: such a call fails with an error kind OrderNotFound,     *)
(* which is not the kind cancel_order reports for an order that is not open.*)
C15_UnknownIdIsOrderNotFound ==
    UnknownIdCall =>
        /\ outcome.kind = "raise"
        /\ outcome.error = "OrderNotFoundError"

(* C15, amended: such a call fails with OrderConflictError, the very kind   *)
(* cancel_order reports for an existing order that is not open.             *)
C15_UnknownIdIsOrderConflict ==
    /\ UnknownIdCall => Raised("OrderConflictError")
    /\ (/\ pc = "done" /\ op = "cancel_order" /\ bodyStarts >= 1
        /\ args[1] \in DOMAIN pre.orders
        /\ pre.orders[args[1]].status # "open") => Raised("OrderConflictError")

(* A check_order_status of an id beyond the counter has been refused while  *)
(* orders exist                                                             *)
C15_Witness ==
    /\ UnknownIdCall /\ op = "check_order_status"
    /\ order_counter >= 1
    /\ Raised("OrderConflictError")

(* C16: with fail_chance = 0 a check_order_status or cancel_order of an id  *)
(* that no place_order has returned raises OrderConflictError, creates no   *)
(* order for that id and leaves balance, counter and table as they were.    *)
C16_UnknownIdDefaultConfig ==
    (/\ fail_chance = 0
     /\ pc = "done" /\ op \in {"check_order_status", "cancel_order"}
     /\ args[1] \notin 1..pre.order_counter) =>
        /\ Raised("OrderConflictError")
        /\ args[1] \notin DOMAIN orders
        /\ AccountUnchanged

(* cancel_order(999) has been refused on a fresh session *)
C16_Witness ==
    /\ fail_chance = 0 /\ pc = "done" /\ op = "cancel_order" /\ args[1] = 999
    /\ order_counter = 0
    /\ Raised("OrderConflictError")

(* C17: a place_order whose body ran fails with SymbolNotFoundError when    *)
(* the symbol is outside available_symbols, whatever direction and amount   *)
(* are; otherwise with ValueError (the code's InvalidArgument) when the     *)
(* direction is not buy or sell; otherwise with ValueError when the amount  *)
(* is <= 0.  With any such argument the balance, the counter and the order  *)
(* table stay as they were throughout the call.                             *)
C17_PlaceOrderValidation ==
    op = "place_order" =>
        LET symbolOk == args[1] \in available_symbols
            directionOk == args[2] \in {"buy", "sell"}
            amountOk == args[3] > 0
            ran == pc = "done" /\ bodyStarts >= 1
        IN  /\ ~(symbolOk /\ directionOk /\ amountOk) => AccountUnchanged
            /\ (ran /\ ~symbolOk) => Raised("SymbolNotFoundError")
            /\ (ran /\ symbolOk /\ ~directionOk) => Raised("ValueError")
            /\ (ran /\ symbolOk /\ directionOk /\ ~amountOk) => Raised("ValueError")

(* An unknown symbol has been reported although direction and amount were   *)
(* invalid too                                                              *)
C17_Witness ==
    /\ pc = "done" /\ op = "place_order" /\ args = <<"INVALID", "hold", 0>>
    /\ Raised("SymbolNotFoundError")
    /\ order_counter >= 1

(* The operations that only read *)
ReadOperations ==
    {"balance", "get_real_time_quote", "get_history", "get_payout_estimate"}

(* C18: throughout a call of balance, get_real_time_quote, get_history or   *)
(* get_payout_estimate, and whether it returns or raises, the balance, the  *)
(* counter and every order are as they were; throughout a call of any       *)
(* operation every order that existed keeps its id, symbol, direction and   *)
(* amount; and a check_order_status or cancel_order of order k leaves the   *)
(* status and result of every other order as they were.                     *)
C18_Frame ==
    /\ op \in ReadOperations => AccountUnchanged
    /\ \A k \in DOMAIN pre.orders :
           /\ k \in DOMAIN orders
           /\ orders[k].id = pre.orders[k].id
           /\ orders[k].symbol = pre.orders[k].symbol
           /\ orders[k].direction = pre.orders[k].direction
           /\ orders[k].amount = pre.orders[k].amount
           /\ (op \in {"check_order_status", "cancel_order"} /\ args[1] # k) =>
                  /\ orders[k].status = pre.orders[k].status
                  /\ orders[k].result = pre.orders[k].result

(* An order has been cancelled while another order was open *)
C18_Witness ==
    /\ pc = "done" /\ op = "cancel_order" /\ Returned
    /\ order_counter = 2
    /\ \E k \in DOMAIN orders : k # args[1] /\ orders[k].status = "open"

(* C20: a place_order with a valid symbol, a valid direction and an amount  *)
(* > 0 whose body ran returns an id and debits the amount whatever the      *)
(* balance is, also when the amount exceeds it.                             *)
C20_NoFundsCheck ==
    (/\ pc = "done" /\ op = "place_order" /\ bodyStarts >= 1
     /\ args[1] \in available_symbols /\ args[2] \in {"buy", "sell"} /\ args[3] > 0) =>
        /\ Returned
        /\ balance = pre.balance - args[3]
        /\ orders[outcome.val[1]].status = "open"

(* On an account that is not a demo account an order has been placed with   *)
(* an amount above the balance, and the balance is negative                 *)
C20_Witness ==
    /\ account_type = "REAL"
    /\ pc = "done" /\ op = "place_order" /\ Returned
    /\ args[3] > pre.balance
    /\ balance < 0

(* C19: with fail_chance = 0, under a caller that keeps checking and a      *)
(* fair random.choice (FairSpec), an open order is eventually not open:     *)
(* win or loss, unless it is cancelled.  A check_order_status that returns  *)
(* on an open order returns win, loss or open, which is then the order's    *)
(* status, never cancelled.                                                 *)
C19_EventualResolution ==
    /\ [](\A k \in 1..MaxOrders :
            IF /\ pc = "done" /\ op = "check_order_status" /\ Returned
               /\ args[1] = k /\ k \in DOMAIN pre.orders
            THEN pre.orders[k].status = "open" =>
                     /\ outcome.val[1] \in {"win", "loss", "open"}
                     /\ outcome.val[1] = orders[k].status
            ELSE TRUE)
    /\ \A k \in 1..MaxOrders :
           (IF k \in DOMAIN orders
            THEN fail_chance = 0 /\ orders[k].status = "open"
            ELSE FALSE)
               ~> (IF k \in DOMAIN orders
                   THEN orders[k].status \in {"win", "loss", "cancelled"}
                   ELSE FALSE)

(* With fail_chance = 0 a check_order_status of an open order has drawn     *)
(* open before, and this one has resolved it to loss                        *)
C19_Witness ==
    /\ fail_chance = 0
    /\ pc = "done" /\ op = "check_order_status" /\ Returned
    /\ args[1] \in DOMAIN pre.orders
    /\ pre.orders[args[1]].status = "open"
    /\ outcome.val[1] = "loss"

=============================================================================
